---- MODULE Spec2Model ----
(***************************************************************************)
(* A model of markusapi: the Markus client class (markusapi.py) and the    *)
(* parse_response decorator (response_parser.py).                          *)
(*                                                                         *)
(* Strings built by f-strings are sequences of chunks (the literal parts   *)
(* and the formatted values, in order); a Python Optional value is None    *)
(* (the empty sequence) or Some(v) (a one-element sequence).               *)
(***************************************************************************)
EXTENDS Integers, Sequences, FiniteSets, TLC

VARIABLES
    api_key,    \* Markus.api_key
    url,        \* Markus.url
    pc,         \* pc[c]: where caller c stands: "idle" or "internal"
    call,       \* call[c]: the endpoint invocation caller c made last
    frame,      \* frame[c]: the locals of upload_feedback_file carried into
                \*           _upload_feedback_file_internal
    sent,       \* sent[c]: the requests issued by the last invocation, in order
    received,   \* received[c]: the transport's response to the last request
    outcome,    \* outcome[c]: how the last invocation ended
    server      \* the remote feedback files of one group: <<[id, filename]>>

vars == <<api_key, url, pc, call, frame, sent, received, outcome, server>>

----------------------------------------------------------------------------
(* Bounds *)

MaxId == 2
MaxListed == 2
MaxFiles == 2

Callers == {1, 2}
Ids == 1 .. MaxId
Keys == {"fake_api_key", "other_api_key"}
Urls == {"http://example.com", "https://markus.test"}

----------------------------------------------------------------------------
(* Python values *)

None == <<>>
Some(v) == <<v>>
Optional(S) == {None} \cup {Some(v) : v \in S}

\* An f-string's {x}: str(x) of an integer, and of an Optional integer
Str(x) == ToString(x)
StrOptional(x) == IF x = None THEN "None" ELSE ToString(x[1])

\* A str and a dict where an argument may be either; isinstance(x, str);
\* json.dumps(x), a str
PyStr(chars) == [str |-> <<chars>>]
PyDict(keys) == [dict |-> keys]
isinstance_str(x) == "str" \in DOMAIN x
json_dumps(x) == [str |-> <<"json.dumps", x>>]

\* bool(x) of an Optional str, and of an Optional file name: None and the
\* empty string are falsy
Truthy(x) == x # None /\ x[1] # ""
TruthyName(x) == x # None /\ x[1] # [stem |-> "", ext |-> ""]

\* x or y, for Optional strings: None and "" are falsy
PyOr(x, y) == IF Truthy(x) THEN x ELSE y

\* {}; d[k] = v on a dict, and the dict of the keys in S
EmptyDict == [k \in {} |-> None]
SetItem(d, k, v) == (k :> v) @@ d
Restrict(d, S) == [k \in S |-> d[k]]

\* A file name, kept as stem and extension so that the extension can be read
FileName(stem, ext) == [stem |-> stem, ext |-> ext]
Titles == {FileName("test", ".txt"), FileName("other", ".txt"), FileName("README", "")}
Contents == {"feedback info"}
MimeTypes == {"application/octet-stream"}

\* mimetypes.guess_type(name)[0]: the type registered for the extension
guess_type(name) == IF name.ext = ".txt" THEN Some("text/plain") ELSE None

----------------------------------------------------------------------------
(* The transport: a response offers an ok flag and three decodings *)

JsonList(items) == [list |-> items]
JsonDict(keys) == [dict |-> keys]
Response(ok, json) ==
    [ok |-> ok, json |-> json, text |-> [text |-> "text"], content |-> [content |-> "content"]]

\* Feedback-file listings: up to MaxListed entries with distinct ids
Entries == [id : Ids, filename : Titles]
RECURSIVE Listings(_)
Listings(n) ==
    IF n = 0 THEN {<<>>}
    ELSE LET shorter == Listings(n - 1)
         IN  shorter \cup
             {Append(l, e) : l \in {s \in shorter : Len(s) = n - 1},
                             e \in Entries}
DistinctIds(l) == \A i, j \in 1 .. Len(l) : i # j => l[i].id # l[j].id
ListBodies == {JsonList(l) : l \in {s \in Listings(MaxListed) : DistinctIds(s)}}
ErrorBodies == {JsonDict(<<>>), JsonDict(<<"code", "description">>)}

\* What the transport may answer: a success carrying a body, or a failure
\* (status >= 400) carrying an error mapping
Responses ==
    {Response(TRUE, JsonDict(<<"id">>)), Response(FALSE, JsonDict(<<"code", "description">>))}
ListingResponses ==
    {Response(TRUE, b) : b \in ListBodies} \cup {Response(FALSE, b) : b \in ErrorBodies}

\* Or the transport gives no response: requests.get / post / put / delete
\* raises a transport-level error (connection refused, timeout)
TransportError(e) == [raises |-> e]
TransportErrors == {TransportError("ConnectionError"), TransportError("Timeout")}
IsTransportError(response) == "raises" \in DOMAIN response

\* requests.get / post / put / delete (url, params=, json=, files=, headers=)
requests(verb, target, params, json, files, headers) ==
    [verb |-> verb, url |-> target, params |-> params, json |-> json,
     files |-> files, headers |-> headers]

\* How a call stands or ended
NoCall == [name |-> "none"]
NoFrame == [none |-> TRUE]
NoResponse == [none |-> TRUE]
NotEnded == [kind |-> "none", value |-> [none |-> TRUE]]
Returned(v) == [kind |-> "returned", value |-> v]
Raised(e) == [kind |-> "raised", value |-> [exception |-> e]]

----------------------------------------------------------------------------
(* response_parser.py *)

parse_response(expected, response) ==
    IF ~response.ok \/ expected = "json" THEN response.json
    ELSE IF expected = "content" THEN response.content
    ELSE IF expected = "text" THEN response.text
    ELSE response.json

----------------------------------------------------------------------------
(* markusapi.py: Markus *)

_auth_header == [Authorization |-> <<"MarkUsAuth ", api_key>>]

\* _url without the ".json" suffix
_url_bare(tail) == <<url, "/api/">> \o tail

_url(tail) == <<url, "/api/">> \o tail \o <<".json">>

\* An endpoint invocation: the method, its decorator's tag, the resource path
\* it hands to _url, and the request it makes
Endpoint(name, expected, tail, request) ==
    [name |-> name, expected |-> expected, tail |-> tail, request |-> request]

get_all_users ==
    LET tail == <<"users">>
    IN  Endpoint("get_all_users", "json", tail,
                 requests("get", _url(tail), None, None, None, _auth_header))

\* new_user storing section_name whether it was given or not
new_user_section_unchecked(user_name, user_type, first_name, last_name, section_name, grace_credits) ==
    LET tail == <<"users">>
        params0 == [user_name |-> user_name, type |-> user_type,
                    first_name |-> first_name, last_name |-> last_name]
        params1 == SetItem(params0, "section_name", section_name)
        params == IF grace_credits # None
                  THEN SetItem(params1, "grace_credits", grace_credits) ELSE params1
    IN  Endpoint("new_user", "json", tail,
                 requests("post", _url(tail), Some(params), None, None, _auth_header))

new_user(user_name, user_type, first_name, last_name, section_name, grace_credits) ==
    LET tail == <<"users">>
        params0 == [user_name |-> user_name, type |-> user_type,
                    first_name |-> first_name, last_name |-> last_name]
        params1 == IF section_name # None
                   THEN SetItem(params0, "section_name", section_name) ELSE params0
        params == IF grace_credits # None
                  THEN SetItem(params1, "grace_credits", grace_credits) ELSE params1
    IN  Endpoint("new_user", "json", tail,
                 requests("post", _url(tail), Some(params), None, None, _auth_header))

get_assignments ==
    LET tail == <<"assignments">>
    IN  Endpoint("get_assignments", "json", tail,
                 requests("get", _url(tail), None, None, None, _auth_header))

get_groups(assignment_id) ==
    LET tail == <<"assignments/", Str(assignment_id), "/groups">>
    IN  Endpoint("get_groups", "json", tail,
                 requests("get", _url(tail), None, None, None, _auth_header))

get_groups_by_name(assignment_id) ==
    LET tail == <<"assignments/", Str(assignment_id), "/groups/group_ids_by_name">>
    IN  Endpoint("get_groups_by_name", "json", tail,
                 requests("get", _url(tail), None, None, None, _auth_header))

get_group(assignment_id, group_id) ==
    LET tail == <<"assignments/", Str(assignment_id), "/groups/", Str(group_id)>>
    IN  Endpoint("get_group", "json", tail,
                 requests("get", _url(tail), None, None, None, _auth_header))

\* get_feedback_files without the headers argument
get_feedback_files_unauthenticated(assignment_id, group_id) ==
    LET tail == <<"assignments/", Str(assignment_id), "/groups/", Str(group_id), "/feedback_files">>
    IN  Endpoint("get_feedback_files", "json", tail,
                 requests("get", _url(tail), None, None, None, EmptyDict))

get_feedback_files(assignment_id, group_id) ==
    LET tail == <<"assignments/", Str(assignment_id), "/groups/", Str(group_id), "/feedback_files">>
    IN  Endpoint("get_feedback_files", "json", tail,
                 requests("get", _url(tail), None, None, None, _auth_header))

get_feedback_file(assignment_id, group_id, feedback_file_id) ==
    LET tail == <<"assignments/", Str(assignment_id), "/groups/", Str(group_id),
                  "/feedback_files/", Str(feedback_file_id)>>
    IN  Endpoint("get_feedback_file", "content", tail,
                 requests("get", _url(tail), None, None, None, _auth_header))

get_grades_summary(assignment_id) ==
    LET tail == <<"assignments/", Str(assignment_id), "/grades_summary">>
    IN  Endpoint("get_grades_summary", "text", tail,
                 requests("get", _url(tail), None, None, None, _auth_header))

\* new_marks_spreadsheet dropping the unset parameters, as update_marks_spreadsheet does
new_marks_spreadsheet_filtered(short_identifier, description, date, is_hidden, show_total, grade_entry_items) ==
    LET tail == <<"grade_entry_forms">>
        params0 == [short_identifier |-> Some(short_identifier),
                    description |-> Some(description), date |-> date,
                    is_hidden |-> Some(is_hidden), show_total |-> Some(show_total),
                    grade_entry_items |-> grade_entry_items]
        kept == {name \in DOMAIN params0 : params0[name] # None}
        params == [name \in kept |->
                      IF name \in {"date", "grade_entry_items"} THEN params0[name]
                      ELSE params0[name][1]]
    IN  Endpoint("new_marks_spreadsheet", "json", tail,
                 requests("post", _url(tail), Some(params), None, None, _auth_header))

new_marks_spreadsheet(short_identifier, description, date, is_hidden, show_total, grade_entry_items) ==
    LET tail == <<"grade_entry_forms">>
        params == [short_identifier |-> short_identifier, description |-> description,
                   date |-> date, is_hidden |-> is_hidden, show_total |-> show_total,
                   grade_entry_items |-> grade_entry_items]
    IN  Endpoint("new_marks_spreadsheet", "json", tail,
                 requests("post", _url(tail), Some(params), None, None, _auth_header))

update_marks_spreadsheet(spreadsheet_id, short_identifier, description, date, is_hidden, show_total, grade_entry_items) ==
    LET tail == <<"grade_entry_forms/", Str(spreadsheet_id)>>
        params0 == [short_identifier |-> short_identifier, description |-> description,
                    date |-> date, is_hidden |-> is_hidden, show_total |-> show_total,
                    grade_entry_items |-> grade_entry_items]
        params == Restrict(params0, {name \in DOMAIN params0 : params0[name] # None})
    IN  Endpoint("update_marks_spreadsheet", "json", tail,
                 requests("put", _url(tail), Some(params), None, None, _auth_header))

update_marks_spreadsheets_grades(spreadsheet_id, user_name, grades_per_column) ==
    LET tail == <<"grade_entry_forms/", Str(spreadsheet_id), "/update_grades">>
        params == [user_name |-> user_name, grade_entry_items |-> grades_per_column]
    IN  Endpoint("update_marks_spreadsheets_grades", "json", tail,
                 requests("put", _url(tail), None, Some(params), None, _auth_header))

get_marks_spreadsheets ==
    LET tail == <<"grade_entry_forms">>
    IN  Endpoint("get_marks_spreadsheets", "json", tail,
                 requests("get", _url(tail), None, None, None, _auth_header))

get_marks_spreadsheet(spreadsheet_id) ==
    LET tail == <<"grade_entry_forms/", Str(spreadsheet_id)>>
    IN  Endpoint("get_marks_spreadsheet", "text", tail,
                 requests("get", _url(tail), None, None, None, _auth_header))

\* _upload_feedback_file_internal always taking its overwrite branch
_upload_feedback_file_internal_put(url_content, files, params, overwrite, response) ==
    [request |-> requests("put", _url(url_content), Some(params), None, Some(files),
                          _auth_header),
     ended |-> Raised("Exception")]

\* _upload_feedback_file_internal with the branches of overwrite exchanged
_upload_feedback_file_internal_swapped(url_content, files, params, overwrite, response) ==
    [request |-> requests(IF overwrite THEN "post" ELSE "put", _url(url_content),
                          Some(params), None, Some(files), _auth_header),
     ended |-> Raised("Exception")]

\* _upload_feedback_file_internal, given the response the transport gives to
\* its request: the request it makes and how it ends
_upload_feedback_file_internal(url_content, files, params, overwrite, response) ==
    LET params1 == IF params.mime_type = None
                   THEN [params EXCEPT !.mime_type = Some("text/plain")] ELSE params
    IN  IF overwrite
        THEN [request |-> requests("put", _url(url_content), Some(params1), None,
                                   Some(files), _auth_header),
              ended |-> IF IsTransportError(response) THEN Raised(response.raises)
                        ELSE Raised("Exception")]
        ELSE [request |-> requests("post", _url(url_content), Some(params1), None,
                                   Some(files), _auth_header),
              ended |-> IF IsTransportError(response) THEN Raised(response.raises)
                        ELSE Raised("Exception")]

\* upload_feedback_file, line 251:
\* next((ff.get("id") for ff in feedback_files if ff.get("filename") == title), None).
\* Iterating a decoded list yields its entries; iterating a decoded mapping
\* yields its keys, and a str has no attribute "get"
RECURSIVE first_match(_, _)
first_match(items, title) ==
    IF items = <<>> THEN None
    ELSE IF Head(items).filename = title THEN Some(Head(items).id)
    ELSE first_match(Tail(items), title)

\* The scan taking whatever it iterates for entries, never raising
scan_raises_never(feedback_files) == FALSE

scan_raises(feedback_files) ==
    "dict" \in DOMAIN feedback_files /\ feedback_files.dict # <<>>

\* The scan keeping the last entry of that name instead of the first
RECURSIVE last_match(_, _)
last_match(items, title) ==
    IF items = <<>> THEN None
    ELSE IF items[Len(items)].filename = title THEN Some(items[Len(items)].id)
    ELSE last_match(SubSeq(items, 1, Len(items) - 1), title)
feedback_file_id_last(feedback_files, title) ==
    IF "list" \in DOMAIN feedback_files THEN last_match(feedback_files.list, title)
    ELSE None

\* The scan comparing ff.get("name"), a key the entries do not have: no entry
\* is ever equal to the title
feedback_file_id_by_name(feedback_files, title) == None

feedback_file_id(feedback_files, title) ==
    IF "list" \in DOMAIN feedback_files THEN first_match(feedback_files.list, title)
    ELSE None

upload_test_group_results(assignment_id, group_id, test_run_id, test_output) ==
    LET tail == <<"assignments/", Str(assignment_id), "/groups/", Str(group_id), "/test_group_results">>
        output == IF ~isinstance_str(test_output) THEN json_dumps(test_output) ELSE test_output
        params == [test_run_id |-> test_run_id, test_output |-> output]
    IN  Endpoint("upload_test_group_results", "json", tail,
                 requests("post", _url(tail), None, Some(params), None, _auth_header))

upload_annotations(assignment_id, group_id, annotations, force_complete) ==
    LET tail == <<"assignments/", Str(assignment_id), "/groups/", Str(group_id), "/add_annotations">>
        params == [annotations |-> annotations, force_complete |-> force_complete]
    IN  Endpoint("upload_annotations", "json", tail,
                 requests("post", _url(tail), None, Some(params), None, _auth_header))

get_annotations(assignment_id, group_id) ==
    LET tail == <<"assignments/", Str(assignment_id), "/groups/", StrOptional(group_id), "/annotations">>
    IN  Endpoint("get_annotations", "json", tail,
                 requests("get", _url(tail), None, None, None, _auth_header))

\* update_marks_single_group nesting the marks under a key of the body
update_marks_single_group_wrapped(criteria_mark_map, assignment_id, group_id) ==
    LET tail == <<"assignments/", Str(assignment_id), "/groups/", Str(group_id), "/update_marks">>
        params == [marks |-> criteria_mark_map]
    IN  Endpoint("update_marks_single_group", "json", tail,
                 requests("put", _url(tail), None, Some(params), None, _auth_header))

update_marks_single_group(criteria_mark_map, assignment_id, group_id) ==
    LET tail == <<"assignments/", Str(assignment_id), "/groups/", Str(group_id), "/update_marks">>
    IN  Endpoint("update_marks_single_group", "json", tail,
                 requests("put", _url(tail), None, Some(criteria_mark_map), None, _auth_header))

update_marking_state(assignment_id, group_id, new_marking_state) ==
    LET tail == <<"assignments/", Str(assignment_id), "/groups/", Str(group_id), "/update_marking_state">>
        params == [marking_state |-> new_marking_state]
    IN  Endpoint("update_marking_state", "json", tail,
                 requests("put", _url(tail), Some(params), None, None, _auth_header))

create_extra_marks(assignment_id, group_id, extra_marks, description) ==
    LET tail == <<"assignments/", Str(assignment_id), "/groups/", Str(group_id), "/create_extra_marks">>
        params == [extra_marks |-> extra_marks, description |-> description]
    IN  Endpoint("create_extra_marks", "json", tail,
                 requests("post", _url(tail), Some(params), None, None, _auth_header))

\* remove_extra_marks sent by the verb of create_extra_marks
remove_extra_marks_post(assignment_id, group_id, extra_marks, description) ==
    LET tail == <<"assignments/", Str(assignment_id), "/groups/", Str(group_id), "/remove_extra_marks">>
        params == [extra_marks |-> extra_marks, description |-> description]
    IN  Endpoint("remove_extra_marks", "json", tail,
                 requests("post", _url(tail), Some(params), None, None, _auth_header))

remove_extra_marks(assignment_id, group_id, extra_marks, description) ==
    LET tail == <<"assignments/", Str(assignment_id), "/groups/", Str(group_id), "/remove_extra_marks">>
        params == [extra_marks |-> extra_marks, description |-> description]
    IN  Endpoint("remove_extra_marks", "json", tail,
                 requests("delete", _url(tail), Some(params), None, None, _auth_header))

\* get_files_from_repo requesting the bare path
get_files_from_repo_bare(assignment_id, group_id, filename, collected) ==
    LET tail == <<"assignments/", Str(assignment_id), "/groups/", Str(group_id), "/submission_files">>
        params0 == EmptyDict
        params1 == IF collected THEN SetItem(params0, "collected", collected) ELSE params0
        params == IF TruthyName(filename) THEN SetItem(params1, "filename", filename) ELSE params1
    IN  Endpoint("get_files_from_repo", "content", tail,
                 requests("get", <<url, "/api/">> \o tail, Some(params), None, None, _auth_header))

\* get_files_from_repo storing collected whatever its value
get_files_from_repo_collected_unchecked(assignment_id, group_id, filename, collected) ==
    LET tail == <<"assignments/", Str(assignment_id), "/groups/", Str(group_id), "/submission_files">>
        params0 == EmptyDict
        params1 == SetItem(params0, "collected", collected)
        params == IF TruthyName(filename) THEN SetItem(params1, "filename", filename) ELSE params1
    IN  Endpoint("get_files_from_repo", "content", tail,
                 requests("get", _url(tail), Some(params), None, None, _auth_header))

get_files_from_repo(assignment_id, group_id, filename, collected) ==
    LET tail == <<"assignments/", Str(assignment_id), "/groups/", Str(group_id), "/submission_files">>
        params0 == EmptyDict
        params1 == IF collected THEN SetItem(params0, "collected", collected) ELSE params0
        params == IF TruthyName(filename) THEN SetItem(params1, "filename", filename) ELSE params1
    IN  Endpoint("get_files_from_repo", "content", tail,
                 requests("get", _url(tail), Some(params), None, None, _auth_header))

upload_folder_to_repo(assignment_id, group_id, folder_path) ==
    LET tail == <<"assignments/", Str(assignment_id), "/groups/", Str(group_id), "/submission_files/create_folders">>
        params == [folder_path |-> folder_path]
    IN  Endpoint("upload_folder_to_repo", "json", tail,
                 requests("post", _url(tail), Some(params), None, None, _auth_header))

\* upload_file_to_repo replacing in place
upload_file_to_repo_put(assignment_id, group_id, file_path, contents, mime_type) ==
    LET tail == <<"assignments/", Str(assignment_id), "/groups/", Str(group_id), "/submission_files">>
        files == [file_content |-> <<file_path, contents>>]
        params == [filename |-> file_path,
                   mime_type |-> PyOr(mime_type, guess_type(file_path))]
    IN  Endpoint("upload_file_to_repo", "json", tail,
                 requests("put", _url(tail), Some(params), None, Some(files), _auth_header))

\* upload_file_to_repo preferring the guessed type to the one supplied
upload_file_to_repo_guess_first(assignment_id, group_id, file_path, contents, mime_type) ==
    LET tail == <<"assignments/", Str(assignment_id), "/groups/", Str(group_id), "/submission_files">>
        files == [file_content |-> <<file_path, contents>>]
        params == [filename |-> file_path,
                   mime_type |-> PyOr(guess_type(file_path), mime_type)]
    IN  Endpoint("upload_file_to_repo", "json", tail,
                 requests("post", _url(tail), Some(params), None, Some(files), _auth_header))

upload_file_to_repo(assignment_id, group_id, file_path, contents, mime_type) ==
    LET tail == <<"assignments/", Str(assignment_id), "/groups/", Str(group_id), "/submission_files">>
        files == [file_content |-> <<file_path, contents>>]
        params == [filename |-> file_path,
                   mime_type |-> PyOr(mime_type, guess_type(file_path))]
    IN  Endpoint("upload_file_to_repo", "json", tail,
                 requests("post", _url(tail), Some(params), None, Some(files), _auth_header))

remove_file_from_repo(assignment_id, group_id, file_path) ==
    LET tail == <<"assignments/", Str(assignment_id), "/groups/", Str(group_id), "/submission_files/remove_file">>
        params == [filename |-> file_path]
    IN  Endpoint("remove_file_from_repo", "json", tail,
                 requests("delete", _url(tail), Some(params), None, None, _auth_header))

remove_folder_from_repo(assignment_id, group_id, folder_path) ==
    LET tail == <<"assignments/", Str(assignment_id), "/groups/", Str(group_id), "/submission_files/remove_folder">>
        params == [folder_path |-> folder_path]
    IN  Endpoint("remove_folder_from_repo", "json", tail,
                 requests("delete", _url(tail), Some(params), None, None, _auth_header))

get_test_specs(assignment_id) ==
    LET tail == <<"assignments/", Str(assignment_id), "/test_specs">>
    IN  Endpoint("get_test_specs", "json", tail,
                 requests("get", _url(tail), None, None, None, _auth_header))

update_test_specs(assignment_id, specs) ==
    LET tail == <<"assignments/", Str(assignment_id), "/update_test_specs">>
        params == [specs |-> specs]
    IN  Endpoint("update_test_specs", "json", tail,
                 requests("post", _url(tail), None, Some(params), None, _auth_header))

get_test_files(assignment_id) ==
    LET tail == <<"assignments/", Str(assignment_id), "/test_files">>
    IN  Endpoint("get_test_files", "content", tail,
                 requests("get", _url(tail), None, None, None, _auth_header))

get_starter_file_entries(assignment_id, starter_file_group_id) ==
    LET tail == <<"assignments/", Str(assignment_id), "/starter_file_groups/", Str(starter_file_group_id), "/entries">>
    IN  Endpoint("get_starter_file_entries", "json", tail,
                 requests("get", _url(tail), None, None, None, _auth_header))

create_starter_file(assignment_id, starter_file_group_id, file_path, contents) ==
    LET tail == <<"assignments/", Str(assignment_id), "/starter_file_groups/", Str(starter_file_group_id), "/create_file">>
        files == [file_content |-> <<file_path, contents>>]
        params == [filename |-> file_path]
    IN  Endpoint("create_starter_file", "json", tail,
                 requests("post", _url(tail), Some(params), None, Some(files), _auth_header))

create_starter_folder(assignment_id, starter_file_group_id, folder_path) ==
    LET tail == <<"assignments/", Str(assignment_id), "/starter_file_groups/", Str(starter_file_group_id), "/create_folder">>
        params == [folder_path |-> folder_path]
    IN  Endpoint("create_starter_folder", "json", tail,
                 requests("post", _url(tail), Some(params), None, None, _auth_header))

remove_starter_file(assignment_id, starter_file_group_id, file_path) ==
    LET tail == <<"assignments/", Str(assignment_id), "/starter_file_groups/", Str(starter_file_group_id), "/remove_file">>
        params == [filename |-> file_path]
    IN  Endpoint("remove_starter_file", "json", tail,
                 requests("delete", _url(tail), Some(params), None, None, _auth_header))

remove_starter_folder(assignment_id, starter_file_group_id, folder_path) ==
    LET tail == <<"assignments/", Str(assignment_id), "/starter_file_groups/", Str(starter_file_group_id), "/remove_folder">>
        params == [folder_path |-> folder_path]
    IN  Endpoint("remove_starter_folder", "json", tail,
                 requests("delete", _url(tail), Some(params), None, None, _auth_header))

download_starter_file_entries(assignment_id, starter_file_group_id) ==
    LET tail == <<"assignments/", Str(assignment_id), "/starter_file_groups/", Str(starter_file_group_id), "/download_entries">>
    IN  Endpoint("download_starter_file_entries", "content", tail,
                 requests("get", _url(tail), None, None, None, _auth_header))

get_starter_file_groups(assignment_id) ==
    LET tail == <<"assignments/", Str(assignment_id), "/starter_file_groups">>
    IN  Endpoint("get_starter_file_groups", "json", tail,
                 requests("get", _url(tail), None, None, None, _auth_header))

create_starter_file_group(assignment_id) ==
    LET tail == <<"assignments/", Str(assignment_id), "/starter_file_groups">>
    IN  Endpoint("create_starter_file_group", "json", tail,
                 requests("post", _url(tail), None, None, None, _auth_header))

get_starter_file_group(assignment_id, starter_file_group_id) ==
    LET tail == <<"assignments/", Str(assignment_id), "/starter_file_groups/", Str(starter_file_group_id)>>
    IN  Endpoint("get_starter_file_group", "json", tail,
                 requests("get", _url(tail), None, None, None, _auth_header))

\* update_starter_file_group testing the truth of use_rename, not its presence
update_starter_file_group_truthy(assignment_id, starter_file_group_id, name, entry_rename, use_rename) ==
    LET tail == <<"assignments/", Str(assignment_id), "/starter_file_groups/", Str(starter_file_group_id)>>
        params0 == EmptyDict
        params1 == IF name # None THEN SetItem(params0, "name", name) ELSE params0
        params2 == IF entry_rename # None
                   THEN SetItem(params1, "entry_rename", entry_rename) ELSE params1
        params == IF use_rename # None /\ use_rename[1]
                  THEN SetItem(params2, "use_rename", use_rename) ELSE params2
    IN  Endpoint("update_starter_file_group", "json", tail,
                 requests("put", _url(tail), Some(params), None, None, _auth_header))

update_starter_file_group(assignment_id, starter_file_group_id, name, entry_rename, use_rename) ==
    LET tail == <<"assignments/", Str(assignment_id), "/starter_file_groups/", Str(starter_file_group_id)>>
        params0 == EmptyDict
        params1 == IF name # None THEN SetItem(params0, "name", name) ELSE params0
        params2 == IF entry_rename # None
                   THEN SetItem(params1, "entry_rename", entry_rename) ELSE params1
        params == IF use_rename # None
                  THEN SetItem(params2, "use_rename", use_rename) ELSE params2
    IN  Endpoint("update_starter_file_group", "json", tail,
                 requests("put", _url(tail), Some(params), None, None, _auth_header))

delete_starter_file_group(assignment_id, starter_file_group_id) ==
    LET tail == <<"assignments/", Str(assignment_id), "/starter_file_groups/", Str(starter_file_group_id)>>
    IN  Endpoint("delete_starter_file_group", "json", tail,
                 requests("delete", _url(tail), None, None, None, _auth_header))

\* Argument values
UserNames == {"test"}
Dates == {"2020-01-01"}
GradeEntryItems == {<<[name |-> "a", out_of |-> 4]>>}
TestOutputs == {PyStr("passed"), PyDict(<<"result">>)}
Annotations == <<[filename |-> "test.txt", content |-> "something"]>>
RepoFiles == {FileName("test", ".txt")}
RepoFileNames == RepoFiles \cup {FileName("", "")}
CriteriaMarkMaps == {[criteria_a |-> 10], [q1 |-> 10, q2 |-> 5]}

\* The defaults of the keyword arguments in two signatures
new_marks_spreadsheet_defaults ==
    [description |-> "", date |-> None, is_hidden |-> TRUE, show_total |-> TRUE,
     grade_entry_items |-> None]
get_files_from_repo_defaults == [filename |-> None, collected |-> TRUE]

\* Python's binding of a call: the keyword arguments supplied, the defaults
\* of the signature for the others
Bind(kwargs, defaults) == kwargs @@ defaults

\* The keyword arguments a caller may supply: any subset of the keywords
NewSpreadsheetKwargs ==
    {Restrict(k, S) :
        k \in [description : {"description"}, date : {Some(d) : d \in Dates},
               is_hidden : BOOLEAN, show_total : BOOLEAN,
               grade_entry_items : {Some(i) : i \in GradeEntryItems}],
        S \in SUBSET {"description", "date", "is_hidden", "show_total", "grade_entry_items"}}
GetFilesKwargs ==
    {Restrict(k, S) :
        k \in [filename : Optional(RepoFileNames), collected : BOOLEAN],
        S \in SUBSET {"filename", "collected"}}

\* An invocation, remembered with the arguments its caller supplied
WithArgs(e, args) == [args |-> args] @@ e

\* Every invocation of a single-request endpoint, over the bounded arguments
Calls ==
    {get_all_users, get_assignments, get_marks_spreadsheets}
    \cup {WithArgs(new_user(u, "EndUser", "first", "last", s, gc),
                   [section_name |-> s, grace_credits |-> gc]) :
            u \in UserNames, s \in Optional({"section"}), gc \in Optional({"3"})}
    \cup {WithArgs(get_groups(a), [assignment_id |-> a]) : a \in Ids}
    \cup {get_groups_by_name(a) : a \in Ids}
    \cup {WithArgs(get_group(a, g), [assignment_id |-> a, group_id |-> g]) :
            a \in Ids, g \in Ids}
    \cup {get_feedback_files(a, g) : a \in Ids, g \in Ids}
    \cup {WithArgs(get_feedback_file(a, g, f),
                   [assignment_id |-> a, group_id |-> g, feedback_file_id |-> f]) :
            a \in Ids, g \in Ids, f \in Ids}
    \cup {get_grades_summary(a) : a \in Ids}
    \cup {LET b == Bind(k, new_marks_spreadsheet_defaults)
           IN  WithArgs(new_marks_spreadsheet("test", b.description, b.date, b.is_hidden,
                                              b.show_total, b.grade_entry_items),
                        [short_identifier |-> "test", kwargs |-> k]) :
            k \in NewSpreadsheetKwargs}
    \cup {WithArgs(update_marks_spreadsheet(id, s, d, dt, h, t, i),
                   [short_identifier |-> s, description |-> d, date |-> dt,
                    is_hidden |-> h, show_total |-> t, grade_entry_items |-> i]) :
            id \in Ids, s \in Optional({"test"}), d \in Optional({"description"}),
            dt \in Optional(Dates), h \in Optional({FALSE}), t \in Optional({FALSE}),
            i \in Optional(GradeEntryItems)}
    \cup {update_marks_spreadsheets_grades(id, u, [some_column |-> 2]) :
            id \in Ids, u \in UserNames}
    \cup {WithArgs(get_marks_spreadsheet(id), [spreadsheet_id |-> id]) : id \in Ids}
    \cup {upload_test_group_results(a, g, 1, o) : a \in Ids, g \in Ids, o \in TestOutputs}
    \cup {upload_annotations(a, g, Annotations, f) : a \in Ids, g \in Ids, f \in BOOLEAN}
    \cup {WithArgs(get_annotations(a, g), [assignment_id |-> a, group_id |-> g]) :
            a \in Ids, g \in Optional(Ids)}
    \cup {WithArgs(update_marks_single_group(m, a, g),
                   [criteria_mark_map |-> m, assignment_id |-> a, group_id |-> g]) :
            m \in CriteriaMarkMaps, a \in Ids, g \in Ids}
    \cup {update_marking_state(a, g, "complete") : a \in Ids, g \in Ids}
    \cup {create_extra_marks(a, g, 10, "a bonus!") : a \in Ids, g \in Ids}
    \cup {remove_extra_marks(a, g, 10, "a bonus!") : a \in Ids, g \in Ids}
    \cup {LET b == Bind(k, get_files_from_repo_defaults)
           IN  WithArgs(get_files_from_repo(a, g, b.filename, b.collected),
                        [assignment_id |-> a, group_id |-> g, kwargs |-> k]) :
            a \in Ids, g \in Ids, k \in GetFilesKwargs}
    \cup {upload_folder_to_repo(a, g, "subdir") : a \in Ids, g \in Ids}
    \cup {WithArgs(upload_file_to_repo(a, g, f, c, m),
                   [assignment_id |-> a, group_id |-> g, file_path |-> f, contents |-> c,
                    mime_type |-> m]) :
            a \in Ids, g \in Ids, f \in Titles, c \in Contents, m \in Optional(MimeTypes)}
    \cup {remove_file_from_repo(a, g, f) : a \in Ids, g \in Ids, f \in RepoFiles}
    \cup {remove_folder_from_repo(a, g, "subdir") : a \in Ids, g \in Ids}
    \cup {get_test_specs(a) : a \in Ids}
    \cup {update_test_specs(a, [tester |-> "py"]) : a \in Ids}
    \cup {get_test_files(a) : a \in Ids}
    \cup {get_starter_file_entries(a, g) : a \in Ids, g \in Ids}
    \cup {create_starter_file(a, g, f, c) : a \in Ids, g \in Ids, f \in RepoFiles, c \in Contents}
    \cup {create_starter_folder(a, g, "subdir") : a \in Ids, g \in Ids}
    \cup {remove_starter_file(a, g, f) : a \in Ids, g \in Ids, f \in RepoFiles}
    \cup {remove_starter_folder(a, g, "subdir") : a \in Ids, g \in Ids}
    \cup {download_starter_file_entries(a, g) : a \in Ids, g \in Ids}
    \cup {get_starter_file_groups(a) : a \in Ids}
    \cup {create_starter_file_group(a) : a \in Ids}
    \cup {get_starter_file_group(a, g) : a \in Ids, g \in Ids}
    \cup {WithArgs(update_starter_file_group(a, g, n, e, u),
                   [name |-> n, entry_rename |-> e, use_rename |-> u]) :
            a \in Ids, g \in Ids, n \in Optional({"name"}), e \in Optional({"rename"}),
            u \in Optional(BOOLEAN)}
    \cup {delete_starter_file_group(a, g) : a \in Ids, g \in Ids}

----------------------------------------------------------------------------
(* Calls *)


Init ==
    /\ api_key \in Keys
    /\ url \in Urls
    /\ pc = [c \in Callers |-> "idle"]
    /\ call = [c \in Callers |-> NoCall]
    /\ frame = [c \in Callers |-> NoFrame]
    /\ sent = [c \in Callers |-> <<>>]
    /\ received = [c \in Callers |-> NoResponse]
    /\ outcome = [c \in Callers |-> NotEnded]
    /\ server = <<>>

\* Invoke answering caller 2 with the result caller 1's invocation of the same
\* endpoint left behind
Invoke_cached(c, e, response) ==
    /\ pc[c] = "idle"
    /\ call' = [call EXCEPT ![c] = e]
    /\ frame' = [frame EXCEPT ![c] = NoFrame]
    /\ sent' = [sent EXCEPT ![c] = <<e.request>>]
    /\ received' = [received EXCEPT ![c] = response]
    /\ outcome' = [outcome EXCEPT ![c] =
           IF c = 2 /\ pc[1] = "done" /\ call[1].name = e.name
           THEN outcome[1]
           ELSE IF IsTransportError(response) THEN Raised(response.raises)
           ELSE Returned(parse_response(e.expected, response))]
    /\ pc' = [pc EXCEPT ![c] = "done"]
    /\ UNCHANGED <<api_key, url>>

\* Invoke storing a base URL on the client as it goes
Invoke_rebasing(c, e, response) ==
    /\ pc[c] = "idle"
    /\ call' = [call EXCEPT ![c] = e]
    /\ frame' = [frame EXCEPT ![c] = NoFrame]
    /\ sent' = [sent EXCEPT ![c] = <<e.request>>]
    /\ received' = [received EXCEPT ![c] = response]
    /\ outcome' = [outcome EXCEPT ![c] =
           IF IsTransportError(response) THEN Raised(response.raises)
           ELSE Returned(parse_response(e.expected, response))]
    /\ pc' = [pc EXCEPT ![c] = "done"]
    /\ url' = "http://example.com"
    /\ UNCHANGED api_key

\* Invoke sending the request once more when the response indicates failure
Invoke_retrying(c, e, response) ==
    /\ pc[c] = "idle"
    /\ call' = [call EXCEPT ![c] = e]
    /\ frame' = [frame EXCEPT ![c] = NoFrame]
    /\ sent' = [sent EXCEPT ![c] =
           IF ~IsTransportError(response) /\ ~response.ok THEN <<e.request, e.request>>
           ELSE <<e.request>>]
    /\ received' = [received EXCEPT ![c] = response]
    /\ outcome' = [outcome EXCEPT ![c] =
           IF IsTransportError(response) THEN Raised(response.raises)
           ELSE Returned(parse_response(e.expected, response))]
    /\ pc' = [pc EXCEPT ![c] = "done"]
    /\ UNCHANGED <<api_key, url>>

\* Invoke catching the transport's error and returning an empty mapping
Invoke_swallowing(c, e, response) ==
    /\ pc[c] = "idle"
    /\ call' = [call EXCEPT ![c] = e]
    /\ frame' = [frame EXCEPT ![c] = NoFrame]
    /\ sent' = [sent EXCEPT ![c] = <<e.request>>]
    /\ received' = [received EXCEPT ![c] = response]
    /\ outcome' = [outcome EXCEPT ![c] =
           IF IsTransportError(response) THEN Returned(JsonDict(<<>>))
           ELSE Returned(parse_response(e.expected, response))]
    /\ pc' = [pc EXCEPT ![c] = "done"]
    /\ UNCHANGED <<api_key, url>>

\* A decorated single-request method: the request goes out, the response comes
\* back, and the decorator's _f decodes it
Invoke(c, e, response) ==
    /\ pc[c] = "idle"
    /\ call' = [call EXCEPT ![c] = e]
    /\ frame' = [frame EXCEPT ![c] = NoFrame]
    /\ sent' = [sent EXCEPT ![c] = <<e.request>>]
    /\ received' = [received EXCEPT ![c] = response]
    /\ outcome' = [outcome EXCEPT ![c] =
           IF IsTransportError(response) THEN Raised(response.raises)
           ELSE Returned(parse_response(e.expected, response))]
    /\ pc' = [pc EXCEPT ![c] = "done"]
    /\ UNCHANGED <<api_key, url>>

\* The caller takes the result and is free to call again
Finish(c) ==
    /\ pc[c] = "done"
    /\ pc' = [pc EXCEPT ![c] = "idle"]
    /\ call' = [call EXCEPT ![c] = NoCall]
    /\ frame' = [frame EXCEPT ![c] = NoFrame]
    /\ sent' = [sent EXCEPT ![c] = <<>>]
    /\ received' = [received EXCEPT ![c] = NoResponse]
    /\ outcome' = [outcome EXCEPT ![c] = NotEnded]
    /\ UNCHANGED <<api_key, url>>

\* upload_feedback_file listing the group's files whatever overwrite says
upload_feedback_file_always_listing(c, assignment_id, group_id, title, contents, mime_type, overwrite, response) ==
    /\ pc[c] = "idle"
    /\ LET url_content == <<"assignments/", Str(assignment_id), "/groups/", Str(group_id),
                            "/feedback_files">>
           listing == get_feedback_files(assignment_id, group_id)
           files == [file_content |-> <<title, contents>>]
           params == [filename |-> title, mime_type |-> PyOr(mime_type, guess_type(title))]
       IN  /\ call' = [call EXCEPT ![c] =
                  [name |-> "upload_feedback_file", expected |-> "json",
                   assignment_id |-> assignment_id, group_id |-> group_id, title |-> title,
                   contents |-> contents, mime_type |-> mime_type, overwrite |-> overwrite]]
           /\ sent' = [sent EXCEPT ![c] = <<listing.request>>]
           /\ received' = [received EXCEPT ![c] = response]
           /\ frame' = [frame EXCEPT ![c] =
                  [feedback_files |-> None, url_content |-> url_content,
                   files |-> files, params |-> params, overwrite |-> FALSE]]
           /\ outcome' = [outcome EXCEPT ![c] = NotEnded]
           /\ pc' = [pc EXCEPT ![c] = "internal"]
    /\ UNCHANGED <<api_key, url>>

\* upload_feedback_file up to its call of _upload_feedback_file_internal: the
\* listing request of the overwrite check, if any, and the scan of its result
upload_feedback_file(c, assignment_id, group_id, title, contents, mime_type, overwrite, response) ==
    /\ pc[c] = "idle"
    /\ LET url_content == <<"assignments/", Str(assignment_id), "/groups/", Str(group_id),
                            "/feedback_files">>
           listing == get_feedback_files(assignment_id, group_id)
           feedback_files == parse_response(listing.expected, response)
           id == feedback_file_id(feedback_files, title)
           files == [file_content |-> <<title, contents>>]
           params == [filename |-> title, mime_type |-> PyOr(mime_type, guess_type(title))]
       IN  /\ call' = [call EXCEPT ![c] =
                  [name |-> "upload_feedback_file", expected |-> "json",
                   assignment_id |-> assignment_id, group_id |-> group_id, title |-> title,
                   contents |-> contents, mime_type |-> mime_type, overwrite |-> overwrite]]
           /\ IF overwrite
              THEN /\ sent' = [sent EXCEPT ![c] = <<listing.request>>]
                   /\ received' = [received EXCEPT ![c] = response]
                   /\ IF IsTransportError(response)
                      THEN /\ frame' = [frame EXCEPT ![c] = [feedback_files |-> None]]
                           /\ outcome' = [outcome EXCEPT ![c] = Raised(response.raises)]
                           /\ pc' = [pc EXCEPT ![c] = "done"]
                      ELSE IF scan_raises(feedback_files)
                      THEN /\ frame' = [frame EXCEPT ![c] =
                                 [feedback_files |-> Some(feedback_files)]]
                           /\ outcome' = [outcome EXCEPT ![c] = Raised("AttributeError")]
                           /\ pc' = [pc EXCEPT ![c] = "done"]
                      ELSE /\ frame' = [frame EXCEPT ![c] =
                                 [feedback_files |-> Some(feedback_files),
                                  url_content |-> IF id # None
                                                  THEN url_content \o <<"/", Str(id[1])>>
                                                  ELSE url_content,
                                  files |-> files, params |-> params,
                                  overwrite |-> (id # None)]]
                           /\ outcome' = [outcome EXCEPT ![c] = NotEnded]
                           /\ pc' = [pc EXCEPT ![c] = "internal"]
              ELSE /\ sent' = [sent EXCEPT ![c] = <<>>]
                   /\ received' = [received EXCEPT ![c] = NoResponse]
                   /\ frame' = [frame EXCEPT ![c] =
                          [feedback_files |-> None, url_content |-> url_content,
                           files |-> files, params |-> params, overwrite |-> FALSE]]
                   /\ outcome' = [outcome EXCEPT ![c] = NotEnded]
                   /\ pc' = [pc EXCEPT ![c] = "internal"]
    /\ UNCHANGED <<api_key, url>>

\* upload_feedback_file_with_test_run_id up to its call of
\* _upload_feedback_file_internal
upload_feedback_file_with_test_run_id(c, test_run_id, title, contents, mime_type, overwrite) ==
    /\ pc[c] = "idle"
    /\ LET url_content == <<"feedback_files">>
           files == [file_content |-> <<title, contents>>]
           params == [filename |-> title, mime_type |-> PyOr(mime_type, guess_type(title)),
                      test_run_id |-> test_run_id]
       IN  /\ call' = [call EXCEPT ![c] =
                  [name |-> "upload_feedback_file_with_test_run_id", expected |-> "json",
                   test_run_id |-> test_run_id, title |-> title, contents |-> contents,
                   mime_type |-> mime_type, overwrite |-> overwrite]]
           /\ frame' = [frame EXCEPT ![c] =
                  [feedback_files |-> None, url_content |-> url_content, files |-> files,
                   params |-> params, overwrite |-> FALSE]]
    /\ sent' = [sent EXCEPT ![c] = <<>>]
    /\ received' = [received EXCEPT ![c] = NoResponse]
    /\ outcome' = [outcome EXCEPT ![c] = NotEnded]
    /\ pc' = [pc EXCEPT ![c] = "internal"]
    /\ UNCHANGED <<api_key, url>>

\* Upload making its write request twice
Upload_twice(c, response) ==
    /\ pc[c] = "internal"
    /\ LET f == frame[c]
           internal == _upload_feedback_file_internal(f.url_content, f.files, f.params,
                                                      f.overwrite, response)
       IN  /\ sent' = [sent EXCEPT ![c] = Append(Append(@, internal.request), internal.request)]
           /\ received' = [received EXCEPT ![c] = response]
           /\ outcome' = [outcome EXCEPT ![c] =
                  IF internal.ended.kind = "raised" THEN internal.ended
                  ELSE Returned(parse_response(call[c].expected, internal.ended.value))]
    /\ pc' = [pc EXCEPT ![c] = "done"]
    /\ UNCHANGED <<api_key, url, call, frame>>

\* The call of _upload_feedback_file_internal that ends both upload methods,
\* under their decorator: the write request goes out, the response comes back
Upload(c, response) ==
    /\ pc[c] = "internal"
    /\ LET f == frame[c]
           internal == _upload_feedback_file_internal(f.url_content, f.files, f.params,
                                                      f.overwrite, response)
       IN  /\ sent' = [sent EXCEPT ![c] = Append(@, internal.request)]
           /\ received' = [received EXCEPT ![c] = response]
           /\ outcome' = [outcome EXCEPT ![c] =
                  IF internal.ended.kind = "raised" THEN internal.ended
                  ELSE Returned(parse_response(call[c].expected, internal.ended.value))]
    /\ pc' = [pc EXCEPT ![c] = "done"]
    /\ UNCHANGED <<api_key, url, call, frame>>

\* One caller against a transport that may answer anything
CallEndpoint(c) ==
    /\ pc[c] = "idle"
    /\ \E e \in Calls, response \in Responses \cup TransportErrors :
          Invoke(c, e, response)
    /\ UNCHANGED server

CallUploadFeedbackFile(c) ==
    /\ pc[c] = "idle"
    /\ \E a \in Ids, g \in Ids, title \in Titles, contents \in Contents,
          mime_type \in Optional(MimeTypes), overwrite \in BOOLEAN :
         \E response \in IF overwrite THEN ListingResponses \cup TransportErrors
                          ELSE {NoResponse} :
            upload_feedback_file(c, a, g, title, contents, mime_type, overwrite, response)
    /\ UNCHANGED server

CallUploadFeedbackFileWithTestRunId(c) ==
    /\ pc[c] = "idle"
    /\ \E t \in Ids, title \in Titles, contents \in Contents,
          mime_type \in Optional(MimeTypes), overwrite \in BOOLEAN :
         upload_feedback_file_with_test_run_id(c, t, title, contents, mime_type, overwrite)
    /\ UNCHANGED server

Write(c) ==
    /\ \E response \in Responses \cup TransportErrors : Upload(c, response)
    /\ UNCHANGED server

Return(c) == Finish(c) /\ UNCHANGED server

Next ==
    \/ CallEndpoint(1)
    \/ CallUploadFeedbackFile(1)
    \/ CallUploadFeedbackFileWithTestRunId(1)
    \/ Write(1)
    \/ Return(1)

Spec == Init /\ [][Next]_vars

----------------------------------------------------------------------------
(* Two callers uploading feedback files of one group to a server that keeps *)
(* them: a POST creates a file under a fresh id, a PUT replaces the file    *)
(* of the id in its path, the listing returns the files in id order.        *)

RaceTitles == {FileName("test", ".txt"), FileName("other", ".txt")}

ServerListing == Response(TRUE, JsonList(server))
ServerAnswer == Response(TRUE, JsonDict(<<"id">>))
ServerStore(request) ==
    IF request.verb = "post"
    THEN Append(server, [id |-> Len(server) + 1, filename |-> request.params[1].filename])
    ELSE server

\* The write request caller c is about to make
WriteRequest(c) ==
    _upload_feedback_file_internal(frame[c].url_content, frame[c].files, frame[c].params,
                                   frame[c].overwrite, ServerAnswer).request

InitRace == Init /\ api_key = "fake_api_key" /\ url = "http://example.com"

RaceBegin(c) ==
    /\ pc[c] = "idle"
    /\ \E title \in RaceTitles, overwrite \in BOOLEAN :
          upload_feedback_file(c, 1, 1, title, "feedback info", None, overwrite,
                               IF overwrite THEN ServerListing ELSE NoResponse)
    /\ UNCHANGED server

RaceWrite(c) ==
    /\ pc[c] = "internal"
    /\ WriteRequest(c).verb = "post" => Len(server) < MaxFiles
    /\ Upload(c, ServerAnswer)
    /\ server' = ServerStore(WriteRequest(c))

RaceFinish(c) == Finish(c) /\ UNCHANGED server

NextRace == \E c \in Callers : RaceBegin(c) \/ RaceWrite(c) \/ RaceFinish(c)

SpecRace == InitRace /\ [][NextRace]_vars

----------------------------------------------------------------------------
(* One caller uploading feedback files of one group, always with            *)
(* overwrite=True, to the server that keeps them.                           *)

SoloBegin(c) ==
    /\ pc[c] = "idle"
    /\ \E title \in Titles, mime_type \in Optional(MimeTypes) :
          upload_feedback_file(c, 1, 1, title, "feedback info", mime_type, TRUE, ServerListing)
    /\ UNCHANGED server

NextSolo == SoloBegin(1) \/ RaceWrite(1) \/ RaceFinish(1)

SpecSolo == Init /\ [][NextSolo]_vars

----------------------------------------------------------------------------
(* Two invocations on one client, side by side: each caller may call, end   *)
(* and call again while the other's invocation stands, so that any two      *)
(* invocations the client ever makes can be compared.                       *)

PairCalls ==
    {e \in Calls : \/ e.name = "get_all_users"
                   \/ e.name = "get_group"
                   \/ e.name = "get_feedback_file" /\ e.args.assignment_id = 1}
PairListings ==
    {Response(TRUE, JsonList(<<>>)),
     Response(TRUE, JsonList(<<[id |-> 1, filename |-> FileName("test", ".txt")]>>)),
     Response(FALSE, JsonDict(<<>>)),
     Response(FALSE, JsonDict(<<"code", "description">>))}

PairCall(c) ==
    /\ pc[c] = "idle"
    /\ \E e \in PairCalls, response \in Responses \cup TransportErrors :
          Invoke(c, e, response)
    /\ UNCHANGED server

PairUpload(c) ==
    /\ pc[c] = "idle"
    /\ \E title \in RaceTitles, overwrite \in BOOLEAN :
         \E response \in IF overwrite THEN PairListings \cup TransportErrors
                          ELSE {NoResponse} :
            upload_feedback_file(c, 1, 1, title, "feedback info", None, overwrite, response)
    /\ UNCHANGED server

NextPair == \E c \in Callers : PairCall(c) \/ PairUpload(c) \/ Write(c) \/ Return(c)

SpecPair == Init /\ [][NextPair]_vars

----------------------------------------------------------------------------
(* Claims *)

UploadNames == {"upload_feedback_file", "upload_feedback_file_with_test_run_id"}
WriteVerbs == {"post", "put"}

\* The invocation of caller c has made its own request (for an upload: its
\* write request), the transport has answered it, and the invocation has ended
Completed(c) ==
    /\ pc[c] = "done"
    /\ sent[c] # <<>>
    /\ ~IsTransportError(received[c])
    /\ call[c].name \in UploadNames => sent[c][Len(sent[c])].verb \in WriteVerbs

\* The decoding an expectation tag selects
Decoding(expected, response) ==
    CASE expected = "json" -> response.json
      [] expected = "content" -> response.content
      [] expected = "text" -> response.text

Verbs(c) == {sent[c][i].verb : i \in DOMAIN sent[c]}

\* The listing caller c's upload_feedback_file got back, when it is a list
Listed(c) ==
    IF /\ call[c].name = "upload_feedback_file"
       /\ frame[c].feedback_files # None
       /\ "list" \in DOMAIN frame[c].feedback_files[1]
    THEN frame[c].feedback_files[1].list
    ELSE <<>>
IsListed(c) ==
    /\ call[c].name = "upload_feedback_file"
    /\ frame[c].feedback_files # None
    /\ "list" \in DOMAIN frame[c].feedback_files[1]
Matches(c) == {i \in DOMAIN Listed(c) : Listed(c)[i].filename = call[c].title}
FirstMatch(c) == CHOOSE i \in Matches(c) : \A j \in Matches(c) : i <= j

FeedbackFilesUrl(c) ==
    <<url, "/api/", "assignments/", ToString(call[c].assignment_id), "/groups/",
      ToString(call[c].group_id), "/feedback_files">>

\* C1: whenever the response to an endpoint's request indicates failure, the
\* endpoint returns that response's JSON-decoded body
C1_FailureReturnsJson ==
    \A c \in Callers :
        Completed(c) /\ ~received[c].ok => outcome[c] = Returned(received[c].json)

\* C2: whenever the response to an endpoint's request indicates success, the
\* endpoint returns the decoding its declared tag selects
C2_SuccessReturnsDeclaredDecoding ==
    \A c \in Callers :
        Completed(c) /\ received[c].ok
            => outcome[c] = Returned(Decoding(call[c].expected, received[c]))

\* C3: every request issued, the listing GET of upload_feedback_file included,
\* carries Authorization: "MarkUsAuth " followed by the client's api_key
C3_AuthorizationOnEveryRequest ==
    \A c \in Callers : \A i \in DOMAIN sent[c] :
        /\ DOMAIN sent[c][i].headers = {"Authorization"}
        /\ sent[c][i].headers.Authorization = <<"MarkUsAuth ", api_key>>

C3_Witness ==
    /\ call[1].name = "upload_feedback_file"
    /\ Len(sent[1]) = 2
    /\ sent[1][1].verb = "get"
    /\ sent[1][2].verb \in WriteVerbs

\* C4: upload_feedback_file with overwrite=True whose listing holds an entry
\* named as the title issues no POST, and its write is a PUT to
\* .../feedback_files/{id} for the id of the first such entry
C4_OverwritePutsToListedId ==
    \A c \in Callers :
        IsListed(c) /\ call[c].overwrite /\ Matches(c) # {} =>
            /\ "post" \notin Verbs(c)
            /\ pc[c] = "done" =>
                  /\ Len(sent[c]) = 2
                  /\ sent[c][2].verb = "put"
                  /\ sent[c][2].url = FeedbackFilesUrl(c)
                        \o <<"/", ToString(Listed(c)[FirstMatch(c)].id), ".json">>

C4_Witness ==
    /\ IsListed(1) /\ call[1].overwrite /\ pc[1] = "done"
    /\ Len(Listed(1)) = 2
    /\ Matches(1) = {2}
    /\ sent[1][2].verb = "put"

\* C5: upload_feedback_file with overwrite=False, or with overwrite=True and a
\* listing that holds no entry named as the title, issues no PUT, and its
\* write is a POST to .../feedback_files with no id suffix
C5_OtherwisePostsWithoutId ==
    \A c \in Callers :
        /\ call[c].name = "upload_feedback_file"
        /\ ~call[c].overwrite \/ (IsListed(c) /\ Matches(c) = {})
        => /\ "put" \notin Verbs(c)
           /\ pc[c] = "done" =>
                 /\ sent[c] # <<>>
                 /\ sent[c][Len(sent[c])].verb = "post"
                 /\ sent[c][Len(sent[c])].url = FeedbackFilesUrl(c) \o <<".json">>
                 /\ Len(sent[c]) = IF call[c].overwrite THEN 2 ELSE 1

C5_Witness ==
    /\ IsListed(1) /\ call[1].overwrite /\ pc[1] = "done"
    /\ Listed(1) # <<>>
    /\ Matches(1) = {}
    /\ sent[1][2].verb = "post"

\* C6: an endpoint whose request the transport answered, success or failure,
\* does not raise: it returns the normalizer's result for that response
C6_AnsweredCallReturns ==
    \A c \in Callers :
        Completed(c) =>
            /\ outcome[c].kind = "returned"
            /\ outcome[c].value =
                  IF received[c].ok THEN Decoding(call[c].expected, received[c])
                  ELSE received[c].json

\* Callers c and d have both uploaded one title to one group with
\* overwrite=True, and neither listing showed a file of that name
SameUpload(c, d) ==
    /\ IsListed(c) /\ IsListed(d)
    /\ call[c].overwrite /\ call[d].overwrite
    /\ call[c].title = call[d].title
    /\ call[c].assignment_id = call[d].assignment_id
    /\ call[c].group_id = call[d].group_id
    /\ Matches(c) = {} /\ Matches(d) = {}
    /\ pc[c] = "done" /\ pc[d] = "done"
Stored(title) == {i \in DOMAIN server : server[i].filename = title}

\* C7: when two callers upload the same title with overwrite=True and both
\* listings showed no file of that name, both write by POST and the server
\* holds two files of that name: the check and the write are not atomic
C7_RaceCreatesTwoFiles ==
    SameUpload(1, 2) =>
        /\ sent[1][2].verb = "post" /\ sent[2][2].verb = "post"
        /\ Cardinality(Stored(call[1].title)) >= 2

C7_Witness ==
    /\ SameUpload(1, 2)
    /\ Listed(1) = <<>> /\ Listed(2) = <<>>
    /\ Cardinality(Stored(call[1].title)) = 2

\* The resource path behind the i-th request of caller c's invocation
PathOf(c, i) ==
    IF call[c].name = "upload_feedback_file"
    THEN IF sent[c][i].verb = "get"
         THEN <<"assignments/", ToString(call[c].assignment_id), "/groups/",
                ToString(call[c].group_id), "/feedback_files">>
         ELSE frame[c].url_content
    ELSE IF call[c].name = "upload_feedback_file_with_test_run_id"
    THEN <<"feedback_files">>
    ELSE call[c].tail

\* C8: every request of an endpoint declared json or text goes to
\* base_url + "/api/" + resource path + ".json"
C8_JsonAndTextUrls ==
    \A c \in Callers :
        call[c].name # "none" /\ call[c].expected \in {"json", "text"} =>
            \A i \in DOMAIN sent[c] :
                sent[c][i].url = <<url, "/api/">> \o PathOf(c, i) \o <<".json">>

C8_Witness ==
    /\ call[1].name = "get_grades_summary"
    /\ call[1].expected = "text"
    /\ Completed(1)

ContentEndpoints ==
    {"get_feedback_file", "get_files_from_repo", "get_test_files",
     "download_starter_file_entries"}

\* C9 as claimed: the request of a content endpoint goes to
\* base_url + "/api/" + resource path, without ".json"
C9_ContentUrlsWithoutSuffix ==
    \A c \in Callers :
        call[c].name \in ContentEndpoints =>
            \A i \in DOMAIN sent[c] : sent[c][i].url = <<url, "/api/">> \o call[c].tail

\* C9 as amended: the content endpoints are those four, and their request
\* goes to base_url + "/api/" + resource path + ".json" like every other
C9_ContentUrlsWithSuffix ==
    \A c \in Callers :
        call[c].name # "none" =>
            /\ call[c].name \in ContentEndpoints <=> call[c].expected = "content"
            /\ call[c].name \in ContentEndpoints =>
                  \A i \in DOMAIN sent[c] :
                      sent[c][i].url = <<url, "/api/">> \o call[c].tail \o <<".json">>

C9_Witness ==
    /\ call[1].name = "get_files_from_repo"
    /\ Completed(1)
    /\ outcome[1] = Returned(received[1].content)

\* C10 as claimed: upload_file_to_repo lists the existing files before it
\* writes
C10_ListsBeforeWrite ==
    \A c \in Callers :
        call[c].name = "upload_file_to_repo" /\ pc[c] = "done" =>
            /\ Len(sent[c]) >= 2
            /\ sent[c][1].verb = "get"

\* C10 as amended: upload_file_to_repo issues one request only, a POST to
\* .../submission_files: no listing comes before it and it never PUTs
C10_PostsWithoutListing ==
    \A c \in Callers :
        call[c].name = "upload_file_to_repo" /\ pc[c] = "done" =>
            /\ Len(sent[c]) = 1
            /\ sent[c][1].verb = "post"
            /\ sent[c][1].url = <<url, "/api/">> \o call[c].tail \o <<".json">>
            /\ \E a \in Ids, g \in Ids :
                  call[c].tail = <<"assignments/", ToString(a), "/groups/", ToString(g),
                                   "/submission_files">>

C10_Witness ==
    /\ call[1].name = "upload_file_to_repo"
    /\ pc[1] = "done"
    /\ sent[1][1].verb = "post"

\* The parameters of the last request of caller c's invocation
LastParams(c) == sent[c][Len(sent[c])].params[1]

\* C11: the write of upload_feedback_file and of upload_file_to_repo carries
\* filename = the title (file_path) supplied, and mime_type = the type
\* supplied when one is given, else the type its extension stands for
\* (text/plain for ".txt")
C11_MimeTypeGivenOrInferred ==
    \A c \in Callers :
        /\ call[c].name = "upload_feedback_file" /\ Completed(c) =>
              /\ DOMAIN LastParams(c) = {"filename", "mime_type"}
              /\ LastParams(c).filename = call[c].title
              /\ call[c].mime_type # None => LastParams(c).mime_type = call[c].mime_type
              /\ call[c].mime_type = None /\ call[c].title.ext = ".txt" =>
                    LastParams(c).mime_type = Some("text/plain")
        /\ call[c].name = "upload_file_to_repo" /\ Completed(c) =>
              /\ DOMAIN LastParams(c) = {"filename", "mime_type"}
              /\ LastParams(c).filename = call[c].args.file_path
              /\ call[c].args.mime_type # None =>
                    LastParams(c).mime_type = call[c].args.mime_type
              /\ call[c].args.mime_type = None /\ call[c].args.file_path.ext = ".txt" =>
                    LastParams(c).mime_type = Some("text/plain")

C11_Witness ==
    /\ call[1].name = "upload_feedback_file" /\ Completed(1)
    /\ call[1].title = FileName("test", ".txt")
    /\ call[1].mime_type = None
    /\ sent[1][Len(sent[1])].verb = "put"
    /\ LastParams(1).mime_type = Some("text/plain")

\* Caller c's upload was given no MIME type and its file name has no
\* extension a type can be inferred from
Uninferable(c) ==
    \/ /\ call[c].name \in UploadNames
       /\ call[c].mime_type = None
       /\ guess_type(call[c].title) = None
    \/ /\ call[c].name = "upload_file_to_repo"
       /\ call[c].args.mime_type = None
       /\ guess_type(call[c].args.file_path) = None

\* C12: an upload given no MIME type and a name no type can be inferred from
\* issues no request at all, and ends by raising
C12_ValidationBeforeRequest ==
    \A c \in Callers :
        Uninferable(c) =>
            /\ sent[c] = <<>>
            /\ pc[c] = "done" => outcome[c].kind = "raised"

\* A URL or a path as one string: its chunks joined
RECURSIVE Flatten(_)
Flatten(chunks) == IF chunks = <<>> THEN "" ELSE Head(chunks) \o Flatten(Tail(chunks))

\* C13: update_marks_single_group(criteria_mark_map, assignment_id, group_id)
\* issues one request, a PUT to
\* .../assignments/{assignment_id}/groups/{group_id}/update_marks, whose JSON
\* body is criteria_mark_map itself: same keys, same values, not wrapped,
\* and nothing is sent as params or files
C13_MarksBodyIsTheMap ==
    \A c \in Callers :
        call[c].name = "update_marks_single_group" /\ pc[c] = "done" =>
            /\ Len(sent[c]) = 1
            /\ sent[c][1].verb = "put"
            /\ Flatten(sent[c][1].url) =
                  url \o "/api/assignments/" \o ToString(call[c].args.assignment_id)
                      \o "/groups/" \o ToString(call[c].args.group_id)
                      \o "/update_marks.json"
            /\ sent[c][1].json # None
            /\ DOMAIN sent[c][1].json[1] = DOMAIN call[c].args.criteria_mark_map
            /\ \A k \in DOMAIN call[c].args.criteria_mark_map :
                  sent[c][1].json[1][k] = call[c].args.criteria_mark_map[k]
            /\ sent[c][1].params = None
            /\ sent[c][1].files = None

C13_Witness ==
    /\ call[1].name = "update_marks_single_group" /\ pc[1] = "done"
    /\ call[1].args.criteria_mark_map = [q1 |-> 10, q2 |-> 5]
    /\ call[1].args.assignment_id = 1 /\ call[1].args.group_id = 2
    /\ sent[1][1].json = Some([q1 |-> 10, q2 |-> 5])

\* The parameter keys an endpoint fills from an argument declared Optional
OptionalParams(name) ==
    CASE name = "new_user" -> {"section_name", "grace_credits"}
      [] name = "new_marks_spreadsheet" -> {"date", "grade_entry_items"}
      [] name = "update_marks_spreadsheet" ->
            {"short_identifier", "description", "date", "is_hidden", "show_total",
             "grade_entry_items"}
      [] name \in UploadNames \cup {"upload_file_to_repo"} -> {"mime_type"}
      [] name = "get_files_from_repo" -> {"filename"}
      [] name = "update_starter_file_group" -> {"name", "entry_rename", "use_rename"}
      [] OTHER -> {}

\* The parameter keys of the i-th request of caller c that carry None
NullParams(c, i) ==
    IF sent[c][i].params = None THEN {}
    ELSE {k \in DOMAIN sent[c][i].params[1] \cap OptionalParams(call[c].name) :
            sent[c][i].params[1][k] = None}

\* C14 as claimed: no request carries a parameter whose value is None
C14_NoNullParameter ==
    \A c \in Callers : \A i \in DOMAIN sent[c] : NullParams(c, i) = {}

\* C14 as amended: an optional argument left unset is omitted from the
\* parameters, except that new_marks_spreadsheet sends date and
\* grade_entry_items as None when they are unset, and upload_file_to_repo
\* sends mime_type as None when no type is given and none can be inferred
C14_NullOnlyWhereSent ==
    \A c \in Callers : \A i \in DOMAIN sent[c] :
        NullParams(c, i) =
            IF call[c].name = "new_marks_spreadsheet"
            THEN {"date", "grade_entry_items"} \ DOMAIN call[c].args.kwargs
            ELSE IF Uninferable(c) /\ call[c].name = "upload_file_to_repo"
            THEN {"mime_type"}
            ELSE {}

C14_Witness ==
    /\ call[1].name = "new_user" /\ pc[1] = "done"
    /\ call[1].args.section_name = None
    /\ call[1].args.grace_credits # None
    /\ DOMAIN sent[1][1].params[1] =
          {"user_name", "type", "first_name", "last_name", "grace_credits"}

SpreadsheetKeys ==
    {"short_identifier", "description", "date", "is_hidden", "show_total",
     "grade_entry_items"}

\* C15: new_marks_spreadsheet sends exactly the six parameters
\* short_identifier, description, date, is_hidden, show_total and
\* grade_entry_items: a supplied value unchanged, is_hidden and show_total
\* True when not supplied, grade_entry_items None when not supplied
C15_NewSpreadsheetSendsAllSix ==
    \A c \in Callers :
        call[c].name = "new_marks_spreadsheet" /\ pc[c] = "done" =>
            /\ Len(sent[c]) = 1
            /\ sent[c][1].params # None
            /\ DOMAIN sent[c][1].params[1] = SpreadsheetKeys
            /\ sent[c][1].params[1].short_identifier = call[c].args.short_identifier
            /\ \A k \in DOMAIN call[c].args.kwargs :
                  sent[c][1].params[1][k] = call[c].args.kwargs[k]
            /\ "is_hidden" \notin DOMAIN call[c].args.kwargs =>
                  sent[c][1].params[1].is_hidden = TRUE
            /\ "show_total" \notin DOMAIN call[c].args.kwargs =>
                  sent[c][1].params[1].show_total = TRUE
            /\ "grade_entry_items" \notin DOMAIN call[c].args.kwargs =>
                  sent[c][1].params[1].grade_entry_items = None

C15_Witness ==
    /\ call[1].name = "new_marks_spreadsheet" /\ pc[1] = "done"
    /\ DOMAIN call[1].args.kwargs = {"description", "date", "show_total"}
    /\ call[1].args.kwargs.show_total = FALSE
    /\ sent[1][1].params[1].is_hidden = TRUE
    /\ sent[1][1].params[1].show_total = FALSE
    /\ sent[1][1].params[1].grade_entry_items = None

StarterGroupKeys == {"name", "entry_rename", "use_rename"}

\* The parameters of caller c's one request hold, of the keys in S, those
\* whose argument was supplied with a value, each with that value
SendsSupplied(c, S) ==
    /\ Len(sent[c]) = 1
    /\ sent[c][1].params # None
    /\ \A k \in S :
          /\ k \in DOMAIN sent[c][1].params[1] <=> call[c].args[k] # None
          /\ k \in DOMAIN sent[c][1].params[1] =>
                sent[c][1].params[1][k] = call[c].args[k]

\* C16: the parameters of update_marks_spreadsheet and of
\* update_starter_file_group hold the key of an optional argument exactly
\* when the argument was supplied with a value other than None (False
\* included), with that value; update_starter_file_group given no optional
\* argument sends empty parameters
C16_SuppliedOptionalsAreSent ==
    \A c \in Callers :
        /\ call[c].name = "update_marks_spreadsheet" /\ pc[c] = "done" =>
              SendsSupplied(c, SpreadsheetKeys)
        /\ call[c].name = "update_starter_file_group" /\ pc[c] = "done" =>
              /\ SendsSupplied(c, StarterGroupKeys)
              /\ (\A k \in StarterGroupKeys : call[c].args[k] = None) =>
                    DOMAIN sent[c][1].params[1] = {}

C16_Witness ==
    /\ call[1].name = "update_starter_file_group" /\ pc[1] = "done"
    /\ call[1].args.name = None
    /\ call[1].args.entry_rename = None
    /\ call[1].args.use_rename = Some(FALSE)
    /\ DOMAIN sent[1][1].params[1] = {"use_rename"}
    /\ sent[1][1].params[1].use_rename = Some(FALSE)

\* The value of collected in caller c's get_files_from_repo (True unless
\* supplied), and whether c supplied a file name (None and the empty name
\* are none)
CollectedOf(c) ==
    IF "collected" \in DOMAIN call[c].args.kwargs THEN call[c].args.kwargs.collected
    ELSE TRUE
SuppliesFilename(c) ==
    /\ "filename" \in DOMAIN call[c].args.kwargs
    /\ call[c].args.kwargs.filename # None
    /\ call[c].args.kwargs.filename[1] # FileName("", "")

\* C17: get_files_from_repo sends collected=True exactly when collected is
\* true (the default), sends filename exactly when a file name is supplied,
\* with that name, and sends no other parameter
C17_CollectedAndFilenameOnly ==
    \A c \in Callers :
        call[c].name = "get_files_from_repo" /\ pc[c] = "done" =>
            /\ Len(sent[c]) = 1
            /\ sent[c][1].params # None
            /\ DOMAIN sent[c][1].params[1] \subseteq {"collected", "filename"}
            /\ "collected" \in DOMAIN sent[c][1].params[1] <=> CollectedOf(c)
            /\ "collected" \in DOMAIN sent[c][1].params[1] =>
                  sent[c][1].params[1].collected = TRUE
            /\ "filename" \in DOMAIN sent[c][1].params[1] <=> SuppliesFilename(c)
            /\ "filename" \in DOMAIN sent[c][1].params[1] =>
                  sent[c][1].params[1].filename = call[c].args.kwargs.filename

C17_Witness ==
    /\ call[1].name = "get_files_from_repo" /\ pc[1] = "done"
    /\ DOMAIN call[1].args.kwargs = {"filename", "collected"}
    /\ call[1].args.kwargs.collected = FALSE
    /\ SuppliesFilename(1)
    /\ DOMAIN sent[1][1].params[1] = {"filename"}

\* The path below courses/{course_id}/ that caller c's endpoint is to request
ScopedPath(c) ==
    CASE call[c].name = "get_assignments" -> "assignments"
      [] call[c].name = "get_groups" ->
            "assignments/" \o ToString(call[c].args.assignment_id) \o "/groups"
      [] call[c].name = "get_group" ->
            "assignments/" \o ToString(call[c].args.assignment_id) \o "/groups/"
                \o ToString(call[c].args.group_id)

\* C18: get_assignments, get_groups and get_group request a path that begins
\* with courses/{course_id}/ for a course id: courses/{c}/assignments,
\* courses/{c}/assignments/{a}/groups, courses/{c}/assignments/{a}/groups/{g}
C18_CourseScopedPaths ==
    \A c \in Callers :
        call[c].name \in {"get_assignments", "get_groups", "get_group"} /\ pc[c] = "done" =>
            \E course_id \in Ids :
                Flatten(sent[c][1].url) =
                    url \o "/api/courses/" \o ToString(course_id) \o "/" \o ScopedPath(c)
                        \o ".json"

\* The path the contract gives a sequence of (resource-name, optional id)
\* pairs: the names in order, slash-delimited, each followed by "/id" when
\* its id is present and by nothing when it is absent
RECURSIVE PairsPath(_)
PairsPath(pairs) ==
    IF pairs = <<>> THEN ""
    ELSE LET name == Head(pairs)[1]
             id == Head(pairs)[2]
             segment == IF id = None THEN name ELSE name \o "/" \o ToString(id[1])
         IN  IF Tail(pairs) = <<>> THEN segment
             ELSE segment \o "/" \o PairsPath(Tail(pairs))

\* The (resource-name, optional id) pairs of caller c's endpoint, from its
\* arguments
PairEndpoints ==
    {"get_all_users", "get_groups", "get_group", "get_feedback_file",
     "get_marks_spreadsheet", "get_annotations"}
PairsOf(c) ==
    CASE call[c].name = "get_all_users" -> << <<"users", None>> >>
      [] call[c].name = "get_groups" ->
            << <<"assignments", Some(call[c].args.assignment_id)>>, <<"groups", None>> >>
      [] call[c].name = "get_group" ->
            << <<"assignments", Some(call[c].args.assignment_id)>>,
               <<"groups", Some(call[c].args.group_id)>> >>
      [] call[c].name = "get_feedback_file" ->
            << <<"assignments", Some(call[c].args.assignment_id)>>,
               <<"groups", Some(call[c].args.group_id)>>,
               <<"feedback_files", Some(call[c].args.feedback_file_id)>> >>
      [] call[c].name = "get_marks_spreadsheet" ->
            << <<"grade_entry_forms", Some(call[c].args.spreadsheet_id)>> >>
      [] call[c].name = "get_annotations" ->
            << <<"assignments", Some(call[c].args.assignment_id)>>,
               <<"groups", call[c].args.group_id>>, <<"annotations", None>> >>

\* C19: the path requested for a sequence of (resource-name, optional id)
\* pairs is rooted at the API prefix and holds every name in the order
\* supplied, each followed by "/id" when its id is present and by nothing
\* when its id is absent
C19_PathFromPairs ==
    \A c \in Callers :
        call[c].name \in PairEndpoints /\ pc[c] = "done" =>
            Flatten(sent[c][1].url) = url \o "/api/" \o PairsPath(PairsOf(c)) \o ".json"

\* The same of the calls in which every id that may be absent is present
C19_PathFromPairsAllPresent ==
    \A c \in Callers :
        /\ call[c].name \in PairEndpoints /\ pc[c] = "done"
        /\ call[c].name = "get_annotations" => call[c].args.group_id # None
        => Flatten(sent[c][1].url) = url \o "/api/" \o PairsPath(PairsOf(c)) \o ".json"

\* C20: get_annotations with group_id None requests the annotations of the
\* assignment, by a path with no group-id segment; with a group id g it
\* requests assignments/{assignment_id}/groups/{g}/annotations
C20_AnnotationsOfAssignmentOrGroup ==
    \A c \in Callers :
        call[c].name = "get_annotations" /\ pc[c] = "done" =>
            LET assignment == url \o "/api/assignments/"
                                  \o ToString(call[c].args.assignment_id)
            IN  IF call[c].args.group_id = None
                THEN Flatten(sent[c][1].url) \in
                        {assignment \o "/annotations.json",
                         assignment \o "/groups/annotations.json"}
                ELSE Flatten(sent[c][1].url) =
                        assignment \o "/groups/" \o ToString(call[c].args.group_id[1])
                            \o "/annotations.json"

\* get_annotations requests the path of the group whenever a group id is given
C20_AnnotationsOfGroup ==
    \A c \in Callers :
        /\ call[c].name = "get_annotations" /\ pc[c] = "done"
        /\ call[c].args.group_id # None
        => Flatten(sent[c][1].url) =
              url \o "/api/assignments/" \o ToString(call[c].args.assignment_id)
                  \o "/groups/" \o ToString(call[c].args.group_id[1]) \o "/annotations.json"

\* C21: when the transport raises while a request of an endpoint is being
\* sent, the call ends there with that very error: nothing is returned,
\* nothing is decoded, and the failed request is the last one issued (after
\* a failed listing no write goes out)
C21_TransportErrorPropagates ==
    \A c \in Callers :
        IsTransportError(received[c]) =>
            /\ pc[c] = "done"
            /\ outcome[c] = Raised(received[c].raises)
            /\ sent[c] # <<>>
            /\ call[c].name \notin UploadNames => Len(sent[c]) = 1
            /\ call[c].name \in UploadNames /\ sent[c][Len(sent[c])].verb = "get" =>
                  /\ Len(sent[c]) = 1
                  /\ Verbs(c) \cap WriteVerbs = {}

C21_Witness ==
    /\ call[1].name = "upload_feedback_file" /\ call[1].overwrite
    /\ received[1] = TransportError("Timeout")
    /\ sent[1][Len(sent[1])].verb = "get"
    /\ outcome[1] = Raised("Timeout")

\* C22: an invocation of any endpoint other than upload_feedback_file issues
\* exactly one request, whether the response indicates success or failure:
\* a failed response is not followed by a second request
C22_OneRequestPerInvocation ==
    \A c \in Callers :
        /\ call[c].name \notin {"none", "upload_feedback_file"} => Len(sent[c]) <= 1
        /\ call[c].name \notin {"none", "upload_feedback_file"} /\ pc[c] = "done" =>
              Len(sent[c]) = 1

C22_Witness ==
    /\ call[1].name = "remove_extra_marks" /\ pc[1] = "done"
    /\ ~IsTransportError(received[1])
    /\ ~received[1].ok
    /\ Len(sent[1]) = 1
    /\ outcome[1] = Returned(received[1].json)

\* The endpoints by the kind of operation their name tells: get_* and
\* download_* read; new_*, create_* and upload_* create; update_* update;
\* remove_* and delete_* remove
ReadEndpoints ==
    {"get_all_users", "get_assignments", "get_groups", "get_groups_by_name", "get_group",
     "get_feedback_files", "get_feedback_file", "get_grades_summary",
     "get_marks_spreadsheets", "get_marks_spreadsheet", "get_annotations",
     "get_files_from_repo", "get_test_specs", "get_test_files",
     "get_starter_file_entries", "download_starter_file_entries",
     "get_starter_file_groups", "get_starter_file_group"}
CreateEndpoints ==
    {"new_user", "new_marks_spreadsheet", "upload_feedback_file_with_test_run_id",
     "upload_test_group_results", "upload_annotations", "create_extra_marks",
     "upload_folder_to_repo", "upload_file_to_repo", "create_starter_file",
     "create_starter_folder", "create_starter_file_group"}
UpdateEndpoints ==
    {"update_marks_spreadsheet", "update_marks_spreadsheets_grades",
     "update_marks_single_group", "update_marking_state", "update_test_specs",
     "update_starter_file_group"}
RemoveEndpoints ==
    {"remove_extra_marks", "remove_file_from_repo", "remove_folder_from_repo",
     "remove_starter_file", "remove_starter_folder", "delete_starter_file_group"}

\* Every request of caller c's invocation is sent by the verb given to the
\* kind of its endpoint; upload_feedback_file reads by GET and writes by
\* POST (a new file) or PUT (a replaced one)
VerbsByKind(c, update_verb) ==
    \A i \in DOMAIN sent[c] :
        CASE call[c].name \in ReadEndpoints -> sent[c][i].verb = "get"
          [] call[c].name \in CreateEndpoints -> sent[c][i].verb = "post"
          [] call[c].name \in UpdateEndpoints -> sent[c][i].verb = update_verb[call[c].name]
          [] call[c].name \in RemoveEndpoints -> sent[c][i].verb = "delete"
          [] call[c].name = "upload_feedback_file" ->
                /\ sent[c][i].verb \in {"get", "post", "put"}
                /\ sent[c][i].verb = "get" <=> (i = 1 /\ call[c].overwrite)

\* C23 as claimed: GET for the endpoints that read, POST for those that
\* create, PUT for those that update, DELETE for those that remove
C23_VerbByKind ==
    \A c \in Callers :
        call[c].name # "none" => VerbsByKind(c, [n \in UpdateEndpoints |-> "put"])

\* C23 as amended: the same, except that update_test_specs is sent by POST
C23_VerbByKindButTestSpecs ==
    \A c \in Callers :
        call[c].name # "none" =>
            VerbsByKind(c, [n \in UpdateEndpoints |->
                               IF n = "update_test_specs" THEN "post" ELSE "put"])

C23_Witness ==
    /\ call[1].name = "update_test_specs" /\ pc[1] = "done"
    /\ Len(sent[1]) = 1
    /\ sent[1][1].verb = "post"

\* C24: no call, whether it returns a success, returns a failure or raises,
\* changes the client's api_key or url: they stay as construction set them
C24_CredentialsImmutable == [][api_key' = api_key /\ url' = url]_vars

C24_Witness ==
    /\ pc[1] = "done"
    /\ call[1].name = "upload_feedback_file"
    /\ outcome[1].kind = "raised"
    /\ api_key = "other_api_key"
    /\ url = "https://markus.test"
    /\ sent[1][1].headers.Authorization = <<"MarkUsAuth ", "other_api_key">>
    /\ sent[1][1].url[1] = "https://markus.test"

\* The invocations of callers c and d are of one endpoint with the same
\* arguments (an upload_feedback_file call is remembered as its arguments)
SameCall(c, d) ==
    /\ call[c].name = call[d].name
    /\ "args" \in DOMAIN call[c] => call[c].args = call[d].args
    /\ call[c].name = "upload_feedback_file" => call[c] = call[d]

\* What the overwrite check's listing gave caller c, if it listed
ListingOf(c) == IF "feedback_files" \in DOMAIN frame[c] THEN frame[c].feedback_files ELSE None

\* The transport answered both invocations alike, request by request
SameResponses(c, d) ==
    /\ received[c] = received[d]
    /\ ListingOf(c) = ListingOf(d)

Writes(c) == {i \in DOMAIN sent[c] : sent[c][i].verb \in WriteVerbs}

\* Caller c is in upload_feedback_file with overwrite=True
Overwriting(c) == call[c].name = "upload_feedback_file" /\ call[c].overwrite

\* A write request of caller c's upload comes second, after the listing GET
\* of the group's feedback files has been issued and answered
WriteAfterListing(c) ==
    \A i \in Writes(c) :
        /\ i = 2
        /\ sent[c][1].verb = "get"
        /\ sent[c][1].url = FeedbackFilesUrl(c) \o <<".json">>
        /\ frame[c].feedback_files # None

\* The upload of caller c stopped at its listing: the transport raised, or
\* the listing's body was a non-empty mapping and the scan of it raised
StoppedAtListing(c) ==
    \/ frame[c].feedback_files = None
    \/ /\ "dict" \in DOMAIN frame[c].feedback_files[1]
       /\ frame[c].feedback_files[1].dict # <<>>

\* C26 as claimed: with overwrite=True the write comes after the listing was
\* answered, and the ended call has made exactly one write request
C26_ListingThenOneWrite ==
    Overwriting(1) =>
        /\ WriteAfterListing(1)
        /\ pc[1] = "done" => Cardinality(Writes(1)) = 1

\* C26, amended: with overwrite=True the write comes after the listing was
\* answered; the ended call has made exactly one write request, a PUT or a
\* POST, unless it stopped at the listing, and then it has made none
C26_ListingThenOneWriteUnlessStopped ==
    Overwriting(1) =>
        /\ WriteAfterListing(1)
        /\ pc[1] = "done" =>
              Cardinality(Writes(1)) = IF StoppedAtListing(1) THEN 0 ELSE 1

C26_Witness ==
    /\ Overwriting(1)
    /\ pc[1] = "done"
    /\ Len(Listed(1)) = 2 /\ Matches(1) = {}
    /\ Len(sent[1]) = 2
    /\ sent[1][1].verb = "get" /\ sent[1][2].verb = "post"
    /\ ~IsTransportError(received[1])

\* C27: a single caller uploading with overwrite=True leaves the server with
\* at most one file of each name; an upload whose listing shows no file of
\* the title (its first upload) issues POST and creates the one file, and an
\* upload of a title already there issues PUT to the id of that file and
\* creates nothing
C27_SoloKeepsOneFile ==
    /\ \A t \in Titles : Cardinality(Stored(t)) <= 1
    /\ pc[1] = "done" =>
          /\ Cardinality(Stored(call[1].title)) = 1
          /\ LET i == CHOOSE j \in Stored(call[1].title) : TRUE
                 w == sent[1][2]
             IN  IF Matches(1) = {}
                 THEN /\ w.verb = "post"
                      /\ w.url = FeedbackFilesUrl(1) \o <<".json">>
                      /\ i = Len(server)
                      /\ Len(server) = Len(Listed(1)) + 1
                 ELSE /\ w.verb = "put"
                      /\ w.url = FeedbackFilesUrl(1) \o <<"/", ToString(server[i].id), ".json">>
                      /\ server = Listed(1)

C27_Witness ==
    /\ pc[1] = "done"
    /\ call[1].title = FileName("other", ".txt")
    /\ Len(server) = 2
    /\ server[2].filename = FileName("other", ".txt")
    /\ sent[1][2].verb = "put"
    /\ sent[1][2].url = FeedbackFilesUrl(1) \o <<"/", "2", ".json">>

\* C28: upload_feedback_file with overwrite=False issues no listing request
\* and looks at no listing: it goes to its write with nothing sent, and its
\* only request is the POST to the group's feedback files, without an id
C28_NoListingWithoutOverwrite ==
    (call[1].name = "upload_feedback_file" /\ ~call[1].overwrite) =>
        /\ "get" \notin Verbs(1)
        /\ frame[1].feedback_files = None
        /\ pc[1] = "internal" => sent[1] = <<>>
        /\ pc[1] = "done" =>
              /\ Len(sent[1]) = 1
              /\ sent[1][1].verb = "post"
              /\ sent[1][1].url = FeedbackFilesUrl(1) \o <<".json">>

C28_Witness ==
    /\ call[1].name = "upload_feedback_file" /\ ~call[1].overwrite
    /\ pc[1] = "done"
    /\ call[1].title = FileName("test", ".txt")
    /\ sent[1] # <<>> /\ sent[1][1].verb = "post"
    /\ ~IsTransportError(received[1]) /\ received[1].ok

\* The listing of caller c's upload came back as a mapping: the decoded error
\* body of a failed listing request
ListedMapping(c) ==
    /\ Overwriting(c)
    /\ frame[c].feedback_files # None
    /\ "dict" \in DOMAIN frame[c].feedback_files[1]

\* C29: with overwrite=True, a failed listing never leads to a PUT; when its
\* error body is a non-empty mapping the call has raised while scanning it,
\* with the listing GET its only request and no write request made
C29_FailedListingRaisesOrPosts ==
    ListedMapping(1) =>
        /\ "put" \notin Verbs(1)
        /\ frame[1].feedback_files[1].dict # <<>> =>
              /\ pc[1] = "done"
              /\ outcome[1] = Raised("AttributeError")
              /\ Len(sent[1]) = 1 /\ sent[1][1].verb = "get"
              /\ Writes(1) = {}
              /\ ~received[1].ok

C29_Witness ==
    /\ ListedMapping(1)
    /\ pc[1] = "done"
    /\ ~received[1].ok
    /\ received[1].json = JsonDict(<<"code", "description">>)
    /\ frame[1].feedback_files = Some(received[1].json)
    /\ outcome[1] = Raised("AttributeError")
    /\ Verbs(1) = {"get"}

====
